---- MODULE Spec2Model ----
(***************************************************************************)
(* A model of wallabag-sync.py (class Wallabagsync).                       *)
(*                                                                         *)
(* Two command-line modes are modelled, as main() dispatches them:         *)
(*   - the check cycle (run_once / check_for_new_entries), specification   *)
(*     Spec: successive cron invocations against a watermark file and a    *)
(*     remote server whose entries grow over time;                         *)
(*   - the CSV import (import_from_csv), specification ImportSpec.         *)
(*                                                                         *)
(* Time is counted in ticks of 1/TicksPerSec second, so that time.time()   *)
(* (a float) and int(since_timestamp) (a truncation) are different values. *)
(* Every HTTP exchange is one step; the clock and the server may move      *)
(* between any two steps of the client.                                    *)
(***************************************************************************)
EXTENDS Integers, Sequences, FiniteSets, TLC

\* ------------------------------------------------------------------ bounds
MaxTime == 4
MaxEntries == 3
MaxRows == 3
MaxTail == 3
MaxCalls == 3

\* ------------------------------------------------------- program constants
TicksPerSec == 2
SleepTicks == 1
MaxFilenameLen == 200
PerPage == 100

\* Python's None for an absent timestamp (the watermark file is missing) and
\* for the unset access token.
NoTime == -1
NoToken == "None"
Token == "token"

VARIABLES
    \* environment
    now,            \* the wall clock, in ticks
    server,         \* the remote account: sequence of entries, oldest first
    watermark,      \* content of last_check.json: 'last_check_time' or NoTime
    \* the process
    access_token,   \* self.access_token
    pc,             \* position of the process
    \* locals of check_for_new_entries
    last_check, current_time, entries, new_entries, exported_count,
    \* observation of one check cycle
    list_sent_at,   \* clock value when GET /api/entries was sent, or NoTime
    list_since,     \* the 'since' parameter of that request, or NoTime
    saved,          \* save_last_check_time was executed in this cycle
    token_reqs,     \* POST /oauth/v2/token requests sent by this process
    \* import_from_csv
    csv_exists,     \* os.path.exists(csv_file)
    csv_file,       \* the rows csv.reader yields, each a sequence of fields
    dry_run, has_header,
    row_i,          \* index in csv_file of the row the reader yields next
    imported_count, error_count, skipped_count,
    add_log,        \* one record per add_entry_to_wallabag call
    \* observation across check cycles
    output_dir,     \* names of the files written in self.output_dir
    seen,           \* ids of the entries some recorded cycle took as new
    \* a call of sanitize_filename
    san_pc, san_in, san_out, san_again,
    \* calls of the API methods by any caller
    api_op,         \* the method being executed, or "none"
    api_log         \* one record per finished call

envVars == <<now, server, watermark>>
cycleVars == <<last_check, current_time, entries, new_entries, exported_count,
               list_sent_at, list_since, saved>>
importVars == <<csv_exists, csv_file, dry_run, has_header, row_i,
                imported_count, error_count, skipped_count, add_log>>
sanVars == <<san_pc, san_in, san_out, san_again>>
apiVars == <<api_op, api_log>>
auxVars == <<output_dir, sanVars, apiVars>>
vars == <<envVars, access_token, pc, token_reqs, cycleVars, importVars,
          seen, auxVars>>

\* ------------------------------------------------------------ pure helpers

\* int(since_timestamp): truncation of the float to whole seconds.
IntOf(ts) == (ts \div TicksPerSec) * TicksPerSec

\* Python truthiness of an optional timestamp: None and 0.0 are false.
TruthyTime(ts) == ts # NoTime /\ ts # 0

\* All subsequences of s (order kept), as the items of a listing response.
RECURSIVE SubSeqs(_)
SubSeqs(s) ==
    IF s = <<>> THEN {<<>>}
    ELSE LET rest == SubSeqs(Tail(s))
         IN rest \cup {<<Head(s)>> \o r : r \in rest}

\* order=desc, sort=created: newest first.
RECURSIVE Reverse(_)
Reverse(s) == IF s = <<>> THEN <<>> ELSE Append(Reverse(Tail(s)), Head(s))

\* What the server may answer to GET /api/entries: any selection of the
\* account's entries, newest first.  The client does not rely on the server
\* honouring 'since' (it filters again), so no filter is assumed here.
ListingResponses == SubSeqs(Reverse(server))

\* The client-side filter of check_for_new_entries: an entry is kept when its
\* created_at parses to a timestamp greater than last_check, or when parsing
\* raises (bare except: keep).
IsNew_ge(entry, lc) ==
    IF entry.parsable THEN entry.t >= lc ELSE TRUE

IsNew_dropUnparsable(entry, lc) ==
    IF entry.parsable THEN entry.t > lc ELSE FALSE

IsNew(entry, lc) ==
    IF entry.parsable THEN entry.t > lc ELSE TRUE

RECURSIVE SelectNew(_, _)
SelectNew(es, lc) ==
    IF es = <<>> THEN <<>>
    ELSE IF IsNew(Head(es), lc)
         THEN <<Head(es)>> \o SelectNew(Tail(es), lc)
         ELSE SelectNew(Tail(es), lc)

NewEntries(es, lc) == IF TruthyTime(lc) THEN SelectNew(es, lc) ELSE es

\* ----------------------------------------------------------------- strings
\* A string is a sequence of characters.

Whitespace == {" ", "\t"}

\* str.lower(), on the letters the model uses.
LowerChar(c) ==
    CASE c = "T" -> "t" [] c = "I" -> "i" [] c = "L" -> "l" [] c = "E" -> "e"
      [] c = "U" -> "u" [] c = "R" -> "r" [] OTHER -> c

Lower(str) == [i \in 1..Len(str) |-> LowerChar(str[i])]

RECURSIVE LStrip(_)
LStrip(str) ==
    IF str # <<>> /\ Head(str) \in Whitespace THEN LStrip(Tail(str)) ELSE str

RECURSIVE RStrip(_)
RStrip(str) ==
    IF str # <<>> /\ str[Len(str)] \in Whitespace
    THEN RStrip(SubSeq(str, 1, Len(str) - 1))
    ELSE str

\* str.strip()
Strip(str) == LStrip(RStrip(str))

\* 'sub in str'
Contains(str, sub) ==
    \E i \in 0..(Len(str) - Len(sub)) : SubSeq(str, i + 1, i + Len(sub)) = sub

\* The text of the line a row was read from: its fields joined by commas.
RECURSIVE JoinFields(_)
JoinFields(row) ==
    IF row = <<>> THEN <<>>
    ELSE IF Len(row) = 1 THEN Head(row)
    ELSE Head(row) \o <<",">> \o JoinFields(Tail(row))

\* f.readline().strip() of the file's first line ('' for an empty file).
FirstLine(file) == IF file = <<>> THEN <<>> ELSE Strip(JoinFields(file[1]))

HasHeader_caseSensitive(file) ==
    LET first_line == FirstLine(file)
    IN \/ Contains(first_line, <<"t", "i", "t", "l", "e">>)
       \/ Contains(first_line, <<"u", "r", "l">>)

\* has_header, line 300.
HasHeader(file) ==
    LET first_line == FirstLine(file)
    IN \/ Contains(Lower(first_line), <<"t", "i", "t", "l", "e">>)
       \/ Contains(Lower(first_line), <<"u", "r", "l">>)

\* 'len(row) < 2'
TooFewColumns(row) == Len(row) < 2

UrlOf_noStrip(row) == row[2]

\* url = row[1].strip()
UrlOf(row) == Strip(row[2])

\* title = row[0].strip()
TitleOf(row) == Strip(row[1])

\* tags, lines 322-324: column 4 when present and non-blank, else None (<<>>).
TagsOf(row) ==
    IF Len(row) > 4 /\ Strip(row[5]) # <<>> THEN Strip(row[5]) ELSE <<>>

NotDryRun_always(dry) == TRUE

\* 'if not dry_run', line 328.
NotDryRun(dry) == ~dry

\* ------------------------------------------------- add_entry_to_wallabag
\* Outcomes of one call: the token request failed ("auth_fail"), or the
\* creation request was answered 2xx with the created entry ("2xx"), 409
\* ("409"), another non-2xx status ("http_error"), or not at all
\* ("transport_error").
PostOutcomes == {"2xx", "409", "http_error", "transport_error"}

RetEntry(id) == [kind |-> "entry", id |-> id, val |-> TRUE]
RetTrue == [kind |-> "bool", id |-> 0, val |-> TRUE]
RetFalse == [kind |-> "bool", id |-> 0, val |-> FALSE]

AddEntryReturn_conflictIsFalse(outcome, id) ==
    IF outcome = "2xx" THEN RetEntry(id) ELSE RetFalse

\* The value add_entry_to_wallabag returns, lines 241-274.
AddEntryReturn(outcome, id) ==
    IF outcome = "2xx" THEN RetEntry(id)
    ELSE IF outcome = "409" THEN RetTrue
    ELSE RetFalse

Truthy_onlyTrue(ret) == ret = RetTrue

\* Python truthiness of the returned value, as tested at line 329: the
\* created entry is a non-empty JSON object.
Truthy(ret) == IF ret.kind = "bool" THEN ret.val ELSE TRUE

\* -------------------------------------------------------------------- Init

CycleLocalsInit ==
    /\ last_check = NoTime
    /\ current_time = NoTime
    /\ entries = <<>>
    /\ new_entries = <<>>
    /\ exported_count = 0
    /\ list_sent_at = NoTime
    /\ list_since = NoTime
    /\ saved = FALSE

\* No call of sanitize_filename or of an API method is in progress, and the
\* output directory is empty.
AuxInit ==
    /\ output_dir = {}
    /\ seen = {}
    /\ san_pc = "none"
    /\ san_in = <<>>
    /\ san_out = <<>>
    /\ san_again = <<>>
    /\ api_op = "none"
    /\ api_log = <<>>

ImportLocalsInit ==
    /\ has_header = FALSE
    /\ row_i = 0
    /\ imported_count = 0
    /\ error_count = 0
    /\ skipped_count = 0
    /\ add_log = <<>>

Init ==
    /\ now = 1
    /\ server = <<>>
    /\ watermark = NoTime
    /\ access_token = NoToken
    /\ pc = "idle"
    /\ token_reqs = 0
    /\ CycleLocalsInit
    /\ ImportLocalsInit
    /\ AuxInit
    /\ csv_exists = FALSE
    /\ csv_file = <<>>
    /\ dry_run = FALSE

\* ------------------------------------------------------------- environment

Tick ==
    /\ now < MaxTime
    /\ now' = now + 1
    /\ UNCHANGED <<auxVars, seen, server, watermark, access_token, pc, token_reqs,
                   cycleVars, importVars>>

\* The user saves an article: the server stamps it with the current time.
\* Whether the client can parse the created_at string the server renders is
\* a property of the string.
ServerCreate ==
    /\ Len(server) < MaxEntries
    /\ \E p \in BOOLEAN :
         server' = Append(server, [id |-> Len(server) + 1, t |-> now,
                                   parsable |-> p])
    /\ UNCHANGED <<auxVars, seen, now, watermark, access_token, pc, token_reqs,
                   cycleVars, importVars>>

\* --------------------------------------------------------- the check cycle

\* main() -> run_once -> check_for_new_entries, lines 387-388.
RunOnce ==
    /\ pc = "idle"
    /\ pc' = "get_entries"
    /\ last_check' = watermark
    /\ current_time' = now
    /\ UNCHANGED <<auxVars, seen, envVars, access_token, token_reqs, entries, new_entries,
                   exported_count, list_sent_at, list_since, saved,
                   importVars>>

\* get_entries: no token yet, the token request succeeds.
GetEntries_AuthOk ==
    /\ pc = "get_entries"
    /\ access_token = NoToken
    /\ access_token' = Token
    /\ token_reqs' = token_reqs + 1
    /\ pc' = "list"
    /\ UNCHANGED <<auxVars, seen, envVars, cycleVars, importVars>>

\* get_entries: the token request fails, get_entries returns [].
GetEntries_AuthFail ==
    /\ pc = "get_entries"
    /\ access_token = NoToken
    /\ token_reqs' = token_reqs + 1
    /\ entries' = <<>>
    /\ pc' = "listed"
    /\ UNCHANGED <<auxVars, seen, envVars, access_token, last_check, current_time,
                   new_entries, exported_count, list_sent_at, list_since,
                   saved, importVars>>

SinceParam_never(ts) == NoTime

\* params['since'], lines 118-120.
SinceParam(ts) == IF TruthyTime(ts) THEN IntOf(ts) ELSE NoTime

\* get_entries: the listing request is answered 2xx with some items.
GetEntries_Ok ==
    /\ pc = "list"
    /\ list_sent_at' = now
    /\ list_since' = SinceParam(last_check)
    /\ \E items \in ListingResponses : entries' = items
    /\ pc' = "listed"
    /\ UNCHANGED <<auxVars, seen, envVars, access_token, token_reqs, last_check,
                   current_time, new_entries, exported_count, saved,
                   importVars>>

\* get_entries: transport error or non-2xx, get_entries returns [].
GetEntries_Fail ==
    /\ pc = "list"
    /\ list_sent_at' = now
    /\ list_since' = SinceParam(last_check)
    /\ entries' = <<>>
    /\ pc' = "listed"
    /\ UNCHANGED <<auxVars, seen, envVars, access_token, token_reqs, last_check,
                   current_time, new_entries, exported_count, saved,
                   importVars>>

SaveLastCheckTime_clockAtSave(timestamp) ==
    /\ watermark' = now
    /\ saved' = TRUE

\* save_last_check_time(timestamp)
SaveLastCheckTime(timestamp) ==
    /\ watermark' = timestamp
    /\ saved' = TRUE

\* 'if not entries': save the watermark and return.
NoEntries ==
    /\ pc = "listed"
    /\ entries = <<>>
    /\ SaveLastCheckTime(current_time)
    /\ pc' = "returned"
    /\ UNCHANGED <<auxVars, seen, now, server, access_token, token_reqs, last_check,
                   current_time, entries, new_entries, exported_count,
                   list_sent_at, list_since, importVars>>

\* The filter of lines 400-416 and 'exported_count = 0'.
FilterStep ==
    /\ pc = "listed"
    /\ entries # <<>>
    /\ new_entries' = NewEntries(entries, last_check)
    /\ exported_count' = 0
    /\ pc' = "export"
    /\ UNCHANGED <<auxVars, envVars, access_token, token_reqs, last_check,
                   current_time, entries, list_sent_at, list_since, saved,
                   importVars>>

Filter == FilterStep /\ UNCHANGED seen

\* The export loop over an empty new_entries, then the final save.
ExportNothing ==
    /\ pc = "export"
    /\ new_entries = <<>>
    /\ SaveLastCheckTime(current_time)
    /\ pc' = "returned"
    /\ UNCHANGED <<auxVars, seen, now, server, access_token, token_reqs, last_check,
                   current_time, entries, new_entries, exported_count,
                   list_sent_at, list_since, importVars>>

\* The first iteration of the export loop evaluates self.export_entry.  The
\* class defines no such method (the text of its body follows 'return True'
\* inside import_from_csv and is unreachable), so the attribute lookup raises
\* AttributeError; check_for_new_entries does not catch it and run_once logs
\* and re-raises.  Nothing after the loop is executed.
ExportEntry_Raises ==
    /\ pc = "export"
    /\ new_entries # <<>>
    /\ pc' = "raised"
    /\ UNCHANGED <<auxVars, seen, envVars, access_token, token_reqs, cycleVars, importVars>>

\* The process ends; cron starts a new one later with a fresh object.
ProcessExit ==
    /\ pc \in {"returned", "raised"}
    /\ pc' = "idle"
    /\ access_token' = NoToken
    /\ token_reqs' = 0
    /\ last_check' = NoTime
    /\ current_time' = NoTime
    /\ entries' = <<>>
    /\ new_entries' = <<>>
    /\ exported_count' = 0
    /\ list_sent_at' = NoTime
    /\ list_since' = NoTime
    /\ saved' = FALSE
    /\ UNCHANGED <<auxVars, seen, envVars, importVars>>

Next ==
    \/ Tick
    \/ ServerCreate
    \/ RunOnce
    \/ GetEntries_AuthOk
    \/ GetEntries_AuthFail
    \/ GetEntries_Ok
    \/ GetEntries_Fail
    \/ NoEntries
    \/ Filter
    \/ ExportNothing
    \/ ExportEntry_Raises
    \/ ProcessExit

Spec == Init /\ [][Next]_vars

CycleEnded == pc \in {"returned", "raised"}

\* ------------------------------- the check cycle against a complete listing
\* The same cycles, with a server that answers the listing as asked: every
\* entry created at or after 'since' (every entry when 'since' is not sent),
\* newest first, at most perPage of them.

RECURSIVE SelectSince(_, _)
SelectSince(es, since) ==
    IF es = <<>> THEN <<>>
    ELSE IF since = NoTime \/ Head(es).t >= since
         THEN <<Head(es)>> \o SelectSince(Tail(es), since)
         ELSE SelectSince(Tail(es), since)

CompleteListing(since) ==
    LET all == SelectSince(Reverse(server), since)
    IN IF Len(all) > PerPage THEN SubSeq(all, 1, PerPage) ELSE all

\* get_entries: the listing request is answered 2xx with the complete page.
GetEntries_OkComplete ==
    /\ pc = "list"
    /\ list_sent_at' = now
    /\ list_since' = SinceParam(last_check)
    /\ entries' = CompleteListing(SinceParam(last_check))
    /\ pc' = "listed"
    /\ UNCHANGED <<auxVars, seen, envVars, access_token, token_reqs,
                   last_check, current_time, new_entries, exported_count,
                   saved, importVars>>

\* The filter, with the entries it takes as new recorded in 'seen'.
Filter_Recording ==
    /\ FilterStep
    /\ seen' = seen \cup {new_entries'[k].id : k \in 1..Len(new_entries')}

CoverNext ==
    \/ Tick
    \/ ServerCreate
    \/ RunOnce
    \/ GetEntries_AuthOk
    \/ GetEntries_AuthFail
    \/ GetEntries_OkComplete
    \/ GetEntries_Fail
    \/ NoEntries
    \/ Filter_Recording
    \/ ExportNothing
    \/ ExportEntry_Raises
    \/ ProcessExit

CoverSpec == Init /\ [][CoverNext]_vars

\* ------------------------------------------------------------ the CSV import

RowValid == << <<"A">>, <<"h">> >>
RowPadded == << <<" ", "B">>, <<" ", "h", " ">> >>
RowOneColumn == << <<"A">> >>
RowEmptyUrl == << <<"A">>, <<" ">> >>
RowBlankLine == << >>
RowHeader == << <<"T", "i", "t", "l", "e">>, <<"U", "R", "L">> >>
RowUrlWord == << <<"C">>, <<"h", "/", "u", "r", "l">> >>
RowTags == << <<"D">>, <<"h">>, <<>>, <<>>, <<"g">> >>

RowPool == {RowValid, RowPadded, RowOneColumn, RowEmptyUrl, RowBlankLine,
            RowHeader, RowUrlWord, RowTags}

Files == UNION {[1..n -> RowPool] : n \in 0..MaxRows}

ImportInit ==
    /\ now = 1
    /\ server = <<>>
    /\ watermark = NoTime
    /\ access_token = NoToken
    /\ pc = "idle"
    /\ token_reqs = 0
    /\ CycleLocalsInit
    /\ ImportLocalsInit
    /\ AuxInit
    /\ csv_exists \in BOOLEAN
    /\ csv_file \in (IF csv_exists THEN Files ELSE {<<>>})
    /\ dry_run \in BOOLEAN

\* 'if not os.path.exists(csv_file): return False'
Import_FileMissing ==
    /\ pc = "idle"
    /\ ~csv_exists
    /\ pc' = "failed"
    /\ UNCHANGED <<auxVars, seen, envVars, access_token, token_reqs, cycleVars, importVars>>

\* Lines 286-305: counters, header detection, next(reader) on a header.
Import_Start ==
    /\ pc = "idle"
    /\ csv_exists
    /\ has_header' = HasHeader(csv_file)
    /\ row_i' = IF HasHeader(csv_file) THEN 2 ELSE 1
    /\ imported_count' = 0
    /\ error_count' = 0
    /\ skipped_count' = 0
    /\ pc' = "rows"
    /\ UNCHANGED <<auxVars, seen, envVars, access_token, token_reqs, cycleVars, csv_exists,
                   csv_file, dry_run, add_log>>

AtRow == pc = "rows" /\ row_i <= Len(csv_file)
CurRow == csv_file[row_i]
ValidRow == AtRow /\ ~TooFewColumns(CurRow) /\ UrlOf(CurRow) # <<>>

Row_NotEnoughColumns ==
    /\ AtRow
    /\ TooFewColumns(CurRow)
    /\ skipped_count' = skipped_count + 1
    /\ row_i' = row_i + 1
    /\ UNCHANGED <<auxVars, seen, envVars, access_token, pc, token_reqs, cycleVars,
                   csv_exists, csv_file, dry_run, has_header, imported_count,
                   error_count, add_log>>

Row_EmptyUrl ==
    /\ AtRow
    /\ ~TooFewColumns(CurRow)
    /\ UrlOf(CurRow) = <<>>
    /\ skipped_count' = skipped_count + 1
    /\ row_i' = row_i + 1
    /\ UNCHANGED <<auxVars, seen, envVars, access_token, pc, token_reqs, cycleVars,
                   csv_exists, csv_file, dry_run, has_header, imported_count,
                   error_count, add_log>>

\* Dry run, line 337.
Row_DryRun ==
    /\ ValidRow
    /\ ~NotDryRun(dry_run)
    /\ imported_count' = imported_count + 1
    /\ row_i' = row_i + 1
    /\ UNCHANGED <<auxVars, seen, envVars, access_token, pc, token_reqs, cycleVars,
                   csv_exists, csv_file, dry_run, has_header, error_count,
                   skipped_count, add_log>>

\* The request body built at lines 251-255.
Payload(row) == [url |-> UrlOf(row), title |-> TitleOf(row),
                 tags |-> TagsOf(row)]

\* Lines 329-335: tally the returned value, then time.sleep(0.5).
Tally_errorsUncounted(outcome, ret) ==
    /\ add_log' = Append(add_log, [row |-> row_i, data |-> Payload(CurRow),
                                   outcome |-> outcome, ret |-> ret])
    /\ imported_count' = IF Truthy(ret) THEN imported_count + 1
                         ELSE imported_count
    /\ error_count' = error_count
    /\ row_i' = row_i + 1
    /\ now' = now + SleepTicks

Tally(outcome, ret) ==
    /\ add_log' = Append(add_log, [row |-> row_i, data |-> Payload(CurRow),
                                   outcome |-> outcome, ret |-> ret])
    /\ imported_count' = IF Truthy(ret) THEN imported_count + 1
                         ELSE imported_count
    /\ error_count' = IF Truthy(ret) THEN error_count ELSE error_count + 1
    /\ row_i' = row_i + 1
    /\ now' = now + SleepTicks

\* add_entry_to_wallabag without a token: the token request succeeds.
AddEntry_AuthOk ==
    /\ ValidRow
    /\ NotDryRun(dry_run)
    /\ access_token = NoToken
    /\ access_token' = Token
    /\ token_reqs' = token_reqs + 1
    /\ pc' = "add_post"
    /\ UNCHANGED <<auxVars, seen, envVars, cycleVars, importVars>>

\* add_entry_to_wallabag without a token: the token request fails and the
\* call returns False without sending the creation request.
AddEntry_AuthFail ==
    /\ ValidRow
    /\ NotDryRun(dry_run)
    /\ access_token = NoToken
    /\ token_reqs' = token_reqs + 1
    /\ Tally("auth_fail", RetFalse)
    /\ UNCHANGED <<auxVars, seen, server, watermark, access_token, pc, cycleVars,
                   csv_exists, csv_file, dry_run, has_header, skipped_count>>

\* add_entry_to_wallabag with the token of an earlier row.
AddEntry_HaveToken ==
    /\ ValidRow
    /\ NotDryRun(dry_run)
    /\ access_token # NoToken
    /\ pc' = "add_post"
    /\ UNCHANGED <<auxVars, seen, envVars, access_token, token_reqs, cycleVars, importVars>>

\* POST /api/entries and its answer.
AddEntry_Post ==
    /\ pc = "add_post"
    /\ \E outcome \in PostOutcomes :
         /\ Tally(outcome, AddEntryReturn(outcome, Len(server) + 1))
         /\ IF outcome = "2xx"
            THEN \E p \in BOOLEAN :
                   server' = Append(server, [id |-> Len(server) + 1,
                                             t |-> now, parsable |-> p])
            ELSE server' = server
    /\ pc' = "rows"
    /\ UNCHANGED <<auxVars, seen, watermark, access_token, token_reqs, cycleVars,
                   csv_exists, csv_file, dry_run, has_header, skipped_count>>

\* Reading the next row raises (I/O or decoding error): 'except Exception',
\* return False.
Import_ReadError ==
    /\ AtRow
    /\ pc' = "failed"
    /\ UNCHANGED <<auxVars, seen, envVars, access_token, token_reqs, cycleVars, importVars>>

\* The reader is exhausted: the totals are logged, return True.
Import_Done ==
    /\ pc = "rows"
    /\ row_i > Len(csv_file)
    /\ pc' = "done"
    /\ UNCHANGED <<auxVars, seen, envVars, access_token, token_reqs, cycleVars, importVars>>

ImportNext ==
    \/ Import_FileMissing
    \/ Import_Start
    \/ Row_NotEnoughColumns
    \/ Row_EmptyUrl
    \/ Row_DryRun
    \/ AddEntry_AuthOk
    \/ AddEntry_AuthFail
    \/ AddEntry_HaveToken
    \/ AddEntry_Post
    \/ Import_ReadError
    \/ Import_Done

ImportSpec == ImportInit /\ [][ImportNext]_vars

\* ------------------------------------------------------ sanitize_filename

\* The character class of the re.sub at line 158.
Problematic == {"<", ">", ":", "\"", "/", "\\", "|", "?", "*"}

ReplaceProblematic_keepSlash(str) ==
    [i \in 1..Len(str) |->
        IF str[i] \in Problematic \ {"/"} THEN "_" ELSE str[i]]

\* re.sub(r'[<>:"/\\|?*]', '_', filename)
ReplaceProblematic(str) ==
    [i \in 1..Len(str) |-> IF str[i] \in Problematic THEN "_" ELSE str[i]]

\* 'if len(filename) > 200: filename = filename[:200]'
Truncate(str) ==
    IF Len(str) > MaxFilenameLen THEN SubSeq(str, 1, MaxFilenameLen) ELSE str

Untitled == <<"u", "n", "t", "i", "t", "l", "e", "d">>

\* sanitize_filename, lines 158-165: replace, strip, truncate, placeholder.
Sanitize(str) ==
    LET filename == Truncate(Strip(ReplaceProblematic(str)))
    IN IF filename = <<>> THEN Untitled ELSE filename

\* The inputs of the calls: an optional leading blank, a run of 'a' of a
\* length around the truncation limit, and a short tail over blanks, a
\* problematic character and ordinary characters; and the placeholder itself.
SanChars == {"a", " ", "/", "_"}
Tails == UNION {[1..n -> SanChars] : n \in 0..MaxTail}
Run(n) == [i \in 1..n |-> "a"]
RunLengths == {0, MaxFilenameLen - 2, MaxFilenameLen - 1, MaxFilenameLen}
SanInputs ==
    {lead \o Run(n) \o tl :
        lead \in {<<>>, <<" ">>}, n \in RunLengths, tl \in Tails}
    \cup {Untitled, <<" ">> \o Untitled}

SanitizeInit ==
    /\ now = 1
    /\ server = <<>>
    /\ watermark = NoTime
    /\ access_token = NoToken
    /\ pc = "idle"
    /\ token_reqs = 0
    /\ CycleLocalsInit
    /\ ImportLocalsInit
    /\ csv_exists = FALSE
    /\ csv_file = <<>>
    /\ dry_run = FALSE
    /\ output_dir = {}
    /\ seen = {}
    /\ san_pc = "call"
    /\ san_in \in SanInputs
    /\ san_out = <<>>
    /\ san_again = <<>>
    /\ api_op = "none"
    /\ api_log = <<>>

\* sanitize_filename(san_in)
Sanitize_Call ==
    /\ san_pc = "call"
    /\ san_out' = Sanitize(san_in)
    /\ san_pc' = "returned"
    /\ UNCHANGED <<envVars, access_token, pc, token_reqs, cycleVars,
                   importVars, seen, output_dir, apiVars, san_in, san_again>>

\* sanitize_filename applied to its own result.
Sanitize_Again ==
    /\ san_pc = "returned"
    /\ san_again' = Sanitize(san_out)
    /\ san_pc' = "twice"
    /\ UNCHANGED <<envVars, access_token, pc, token_reqs, cycleVars,
                   importVars, seen, output_dir, apiVars, san_in, san_out>>

SanitizeNext == Sanitize_Call \/ Sanitize_Again

SanitizeSpec == SanitizeInit /\ [][SanitizeNext]_vars

\* ----------------------------------------- the API methods, called directly
\* get_entries, get_entry_content and add_entry_to_wallabag called in any
\* order on one object, each call running to its return.

ApiOps == {"get_entries", "get_entry_content", "add_entry_to_wallabag"}

\* Outcomes of a GET request: answered 2xx, answered with another status, or
\* not answered.
GetOutcomes == {"2xx", "http_error", "transport_error"}

RetList(items) == [kind |-> "list", items |-> items]
RetNone == [kind |-> "none"]
RetRaise == [kind |-> "raise"]

GetEntriesReturn_raises(outcome, items) ==
    IF outcome = "2xx" THEN RetList(items)
    ELSE IF outcome = "transport_error" THEN RetRaise
    ELSE RetList(<<>>)

\* The value get_entries returns, lines 105-134.
GetEntriesReturn(outcome, items) ==
    IF outcome = "2xx" THEN RetList(items) ELSE RetList(<<>>)

\* The value get_entry_content returns, lines 138-153.
GetEntryContentReturn(outcome, id) ==
    IF outcome = "2xx" THEN RetEntry(id) ELSE RetNone

ApiInit ==
    /\ now = 1
    /\ server = <<>>
    /\ watermark = NoTime
    /\ access_token = NoToken
    /\ pc = "idle"
    /\ token_reqs = 0
    /\ CycleLocalsInit
    /\ ImportLocalsInit
    /\ AuxInit
    /\ csv_exists = FALSE
    /\ csv_file = <<>>
    /\ dry_run = FALSE

\* A caller invokes one of the methods.
Api_Call ==
    /\ pc = "idle"
    /\ Len(api_log) < MaxCalls
    /\ \E op \in ApiOps : api_op' = op
    /\ pc' = "api_called"
    /\ UNCHANGED <<envVars, access_token, token_reqs, cycleVars, importVars,
                   seen, output_dir, sanVars, api_log>>

\* The record of a finished call: whether the method's own request was sent,
\* what answered it, the value returned and the token left behind.
ApiReturn(sent, outcome, ret) ==
    /\ api_log' = Append(api_log, [op |-> api_op, sent |-> sent,
                                   outcome |-> outcome, ret |-> ret,
                                   token |-> access_token'])
    /\ api_op' = "none"
    /\ pc' = "idle"

Api_AuthOk_evenWithToken ==
    /\ pc = "api_called"
    /\ access_token' = Token
    /\ token_reqs' = token_reqs + 1
    /\ pc' = "api_send"
    /\ UNCHANGED <<envVars, cycleVars, importVars, seen, auxVars>>

\* 'if not self.access_token': get_access_token succeeds.
Api_AuthOk ==
    /\ pc = "api_called"
    /\ access_token = NoToken
    /\ access_token' = Token
    /\ token_reqs' = token_reqs + 1
    /\ pc' = "api_send"
    /\ UNCHANGED <<envVars, cycleVars, importVars, seen, auxVars>>

\* get_access_token fails: the method returns at once.
Api_AuthFail ==
    /\ pc = "api_called"
    /\ access_token = NoToken
    /\ token_reqs' = token_reqs + 1
    /\ access_token' = access_token
    /\ ApiReturn(FALSE, "auth_fail",
                 CASE api_op = "get_entries" ->
                          GetEntriesReturn("auth_fail", <<>>)
                   [] api_op = "get_entry_content" ->
                          GetEntryContentReturn("auth_fail", 0)
                   [] OTHER -> AddEntryReturn("auth_fail", 0))
    /\ UNCHANGED <<envVars, cycleVars, importVars, seen, output_dir, sanVars>>

\* The object already holds a token.
Api_HaveToken ==
    /\ pc = "api_called"
    /\ access_token # NoToken
    /\ pc' = "api_send"
    /\ UNCHANGED <<envVars, access_token, token_reqs, cycleVars, importVars,
                   seen, auxVars>>

\* get_entries: GET /api/entries and its answer.
Api_GetEntries ==
    /\ pc = "api_send"
    /\ api_op = "get_entries"
    /\ access_token' = access_token
    /\ \E outcome \in GetOutcomes, items \in ListingResponses :
         ApiReturn(TRUE, outcome, GetEntriesReturn(outcome, items))
    /\ UNCHANGED <<envVars, token_reqs, cycleVars, importVars, seen,
                   output_dir, sanVars>>

\* get_entry_content: GET /api/entries/{id} and its answer.
Api_GetEntryContent ==
    /\ pc = "api_send"
    /\ api_op = "get_entry_content"
    /\ access_token' = access_token
    /\ \E outcome \in GetOutcomes, id \in 1..MaxCalls :
         ApiReturn(TRUE, outcome, GetEntryContentReturn(outcome, id))
    /\ UNCHANGED <<envVars, token_reqs, cycleVars, importVars, seen,
                   output_dir, sanVars>>

\* add_entry_to_wallabag: POST /api/entries and its answer.
Api_AddEntry ==
    /\ pc = "api_send"
    /\ api_op = "add_entry_to_wallabag"
    /\ access_token' = access_token
    /\ \E outcome \in PostOutcomes :
         /\ ApiReturn(TRUE, outcome,
                      AddEntryReturn(outcome, Len(server) + 1))
         /\ IF outcome = "2xx"
            THEN \E p \in BOOLEAN :
                   server' = Append(server, [id |-> Len(server) + 1,
                                             t |-> now, parsable |-> p])
            ELSE server' = server
    /\ UNCHANGED <<now, watermark, token_reqs, cycleVars, importVars, seen,
                   output_dir, sanVars>>

ApiNext ==
    \/ Api_Call
    \/ Api_AuthOk
    \/ Api_AuthFail
    \/ Api_HaveToken
    \/ Api_GetEntries
    \/ Api_GetEntryContent
    \/ Api_AddEntry

ApiSpec == ApiInit /\ [][ApiNext]_vars

\* ------------------------------------------------ claims on the check cycle

InSeq(x, s) == \E k \in 1..Len(s) : s[k] = x

Filtered == pc \in {"export", "returned", "raised"} /\ entries # <<>>

\* C1: every check cycle, whatever the listing and the exports did, has
\* executed save_last_check_time when it ends.
C1_EveryCycleSaves == CycleEnded => saved

\* C2: the watermark a cycle writes is the clock value captured at the start
\* of that cycle; it is not later than the instant the cycle's listing
\* request was sent, and no entry's created_at enters it.
C2_WatermarkIsCycleStart ==
    saved => /\ watermark = current_time
             /\ list_sent_at # NoTime => watermark <= list_sent_at

\* A cycle that wrote its watermark strictly before it sent the listing, with
\* listed entries whose created_at all differ from the watermark.
C2_Witness ==
    /\ saved
    /\ list_sent_at # NoTime
    /\ watermark < list_sent_at
    /\ entries # <<>>
    /\ \A k \in 1..Len(entries) : entries[k].t # watermark

\* C3: a first run (no watermark) whose listing returned N entries runs the
\* export of all N of them and ends with the watermark equal to the cycle's
\* start time.
C3_FirstRunExportsAllThenSaves ==
    (CycleEnded /\ last_check = NoTime) =>
        /\ pc = "returned"
        /\ new_entries = entries
        /\ watermark = current_time

\* C4: with a watermark T present, a listed entry with a parsable created_at
\* c is in the new-entry set exactly when c > T.
C4_NewIffStrictlyLater ==
    (Filtered /\ last_check # NoTime) =>
        \A k \in 1..Len(entries) :
            entries[k].parsable =>
                (InSeq(entries[k], new_entries) <=> entries[k].t > last_check)

\* The listing holds entries created at T-1, T and T+1 and only the last one
\* is new.
C4_Witness ==
    /\ pc = "export"
    /\ last_check # NoTime
    /\ \E a, b, c \in 1..Len(entries) :
         /\ entries[a].parsable /\ entries[a].t = last_check - 1
         /\ entries[b].parsable /\ entries[b].t = last_check
         /\ entries[c].parsable /\ entries[c].t = last_check + 1
         /\ new_entries = <<entries[c]>>

\* C5: with a watermark present, a listed entry whose created_at cannot be
\* parsed is always in the new-entry set.
C5_UnparsableKept ==
    (Filtered /\ last_check # NoTime) =>
        \A k \in 1..Len(entries) :
            ~entries[k].parsable => InSeq(entries[k], new_entries)

\* Unparsable entries stamped before, at and after the watermark are all kept.
C5_Witness ==
    /\ pc = "export"
    /\ last_check # NoTime
    /\ \E a, b \in 1..Len(entries) :
         /\ ~entries[a].parsable /\ entries[a].t < last_check
         /\ ~entries[b].parsable /\ entries[b].t >= last_check
         /\ InSeq(entries[a], new_entries)
         /\ InSeq(entries[b], new_entries)

\* C6: a failing export never aborts the cycle: the cycle never ends by
\* raising, whatever the new-entry set.
C6_CycleNeverRaises == pc # "raised"

\* ------------------------------------------------- claims on the CSV import

\* The rows of the file, by index, and those the importer does not take as
\* the header.
FileRowIdx == 1..Len(csv_file)
DataRowIdx == {k \in FileRowIdx : k > 1 \/ ~has_header}

Blank(str) == \A i \in 1..Len(str) : str[i] \in Whitespace

\* A row with fewer than 2 columns, or with an empty url after trimming.
Skippable(row) == Len(row) < 2 \/ Blank(row[2])

SkippableIn(idx) == {k \in idx : Skippable(csv_file[k])}
ValidIn(idx) == {k \in idx : ~Skippable(csv_file[k])}

AllAddsCreated == \A k \in 1..Len(add_log) : add_log[k].outcome = "2xx"

RowAccounting(idx) ==
    /\ skipped_count = Cardinality(SkippableIn(idx))
    /\ \A k \in 1..Len(add_log) : add_log[k].row \in ValidIn(idx)
    /\ imported_count + error_count = Cardinality(ValidIn(idx))
    /\ (~dry_run /\ AllAddsCreated) =>
           /\ imported_count = Cardinality(ValidIn(idx))
           /\ error_count = 0

\* C7 (as stated): every row of the file with fewer than 2 columns or an
\* empty trimmed url is counted as skipped and causes no add-entry call, and
\* every other row of the file is processed as a valid row.
C7_Original == pc = "done" => RowAccounting(FileRowIdx)

\* C7 (amended): the same, for every row other than a first line that is
\* discarded as the header.
C7_RowValidation == pc = "done" => RowAccounting(DataRowIdx)

\* The 3-row file: row 1 valid, row 2 with one column, row 3 with an empty
\* url; not a dry run and the add-entry call created the entry.
C7_Witness ==
    /\ pc = "done"
    /\ ~dry_run
    /\ Len(csv_file) = 3
    /\ ~has_header
    /\ ~Skippable(csv_file[1])
    /\ Len(csv_file[2]) = 1
    /\ Len(csv_file[3]) >= 2 /\ Blank(csv_file[3][2])
    /\ Len(add_log) = 1 /\ add_log[1].outcome = "2xx"
    /\ skipped_count = 2 /\ imported_count = 1 /\ error_count = 0

NoNetwork ==
    /\ token_reqs = 0
    /\ add_log = <<>>
    /\ access_token = NoToken
    /\ server = <<>>
    /\ error_count = 0

\* C8 (as stated): a dry-run import sends no token request and no add-entry
\* request, leaves the token and the remote entries unchanged, and ends with
\* imported equal to the number of structurally valid rows of the file and
\* errored = 0.
C8_Original ==
    dry_run => /\ NoNetwork
               /\ pc = "done" =>
                    imported_count = Cardinality(ValidIn(FileRowIdx))

\* C8 (amended): the same, counting the structurally valid rows other than a
\* first line that is discarded as the header.
C8_DryRunNoNetwork ==
    dry_run => /\ NoNetwork
               /\ pc = "done" =>
                    imported_count = Cardinality(ValidIn(DataRowIdx))

\* A finished dry run over a header, a valid row and a skipped row.
C8_Witness ==
    /\ pc = "done"
    /\ dry_run
    /\ has_header
    /\ Len(csv_file) = 3
    /\ imported_count = 1
    /\ skipped_count = 1

\* C9: in a non-dry-run import an add-entry call answered 409 adds one to
\* imported and nothing to errored; a call that fails otherwise (other
\* status, transport error, failed authentication) adds one to errored and
\* nothing to imported.
C9_ConflictImportedFailureErrored ==
    [][(~dry_run /\ Len(add_log') = Len(add_log) + 1) =>
          LET o == add_log'[Len(add_log')].outcome
          IN /\ o = "409" =>
                  /\ imported_count' = imported_count + 1
                  /\ error_count' = error_count
             /\ o \in {"http_error", "transport_error", "auth_fail"} =>
                  /\ error_count' = error_count + 1
                  /\ imported_count' = imported_count]_vars

\* An import that met a failed authentication, a 409 and another failure.
C9_Witness ==
    /\ pc = "done"
    /\ ~dry_run
    /\ \E a, b, c \in 1..Len(add_log) :
         /\ add_log[a].outcome = "auth_fail"
         /\ add_log[b].outcome = "409"
         /\ add_log[c].outcome \in {"http_error", "transport_error"}
    /\ imported_count = 1
    /\ error_count = 2

\* C10: add_entry_to_wallabag returns the created resource exactly on 2xx,
\* true exactly on 409 and false on every other failure (a failed
\* authentication included), and the importer counts a row as imported
\* exactly when the call returned one of the first two.
C10_ThreeOutcomes ==
    /\ \A k \in 1..Len(add_log) :
         LET e == add_log[k]
         IN /\ e.outcome = "2xx" <=>
                 (e.ret.kind = "entry" /\
                  \E j \in 1..Len(server) : server[j].id = e.ret.id)
            /\ e.outcome = "409" <=> e.ret = RetTrue
            /\ e.outcome \notin {"2xx", "409"} <=> e.ret = RetFalse
    /\ ~dry_run =>
         /\ imported_count =
              Cardinality({k \in 1..Len(add_log) :
                             add_log[k].outcome \in {"2xx", "409"}})
         /\ error_count =
              Cardinality({k \in 1..Len(add_log) :
                             add_log[k].outcome \notin {"2xx", "409"}})

\* An import whose calls returned a created entry, true and false.
C10_Witness ==
    /\ pc = "done"
    /\ ~dry_run
    /\ \E a, b, c \in 1..Len(add_log) :
         /\ add_log[a].ret.kind = "entry"
         /\ add_log[b].ret = RetTrue
         /\ add_log[c].ret = RetFalse
    /\ imported_count = 2
    /\ error_count = 1

\* -------------------------------------------- claims on sanitize_filename

\* C11: sanitize_filename is idempotent on its own output:
\* sanitize(sanitize(x)) = sanitize(x) for every input x.
C11_SanitizeIdempotent == san_pc = "twice" => san_again = san_out

NoProblematic(str) == \A i \in 1..Len(str) : str[i] \notin Problematic

WellFormedName(str) ==
    /\ str # <<>>
    /\ Len(str) <= 200
    /\ NoProblematic(str)

\* The input with its problematic characters replaced and its surrounding
\* whitespace removed, by position.
Core(str) ==
    LET keep == {i \in 1..Len(str) : str[i] \notin Whitespace}
        lo == CHOOSE i \in keep : \A j \in keep : i <= j
        hi == CHOOSE i \in keep : \A j \in keep : j <= i
    IN IF keep = {} THEN <<>>
       ELSE [i \in 1..(hi - lo + 1) |->
               IF str[lo + i - 1] \in Problematic THEN "_"
               ELSE str[lo + i - 1]]

\* C12 (as stated): the result is non-empty, at most 200 characters long and
\* free of < > : " / \ | ? *, and it is "untitled" exactly when the input is
\* empty or all whitespace.
C12_Original ==
    san_pc # "call" =>
        /\ WellFormedName(san_out)
        /\ san_out = Untitled <=> Blank(san_in)

\* C12 (amended): the result is non-empty, at most 200 characters long and
\* free of the problematic characters; it is "untitled" whenever the input is
\* empty or all whitespace, and otherwise only when the input, replaced and
\* trimmed, is itself the text "untitled".
C12_SanitizeResult ==
    san_pc # "call" =>
        /\ WellFormedName(san_out)
        /\ Blank(san_in) => san_out = Untitled
        /\ (san_out = Untitled /\ ~Blank(san_in)) => Core(san_in) = Untitled

\* Calls on a blank input, on an input longer than the limit that holds a
\* problematic character, and so on: here a truncated result.
C12_Witness ==
    /\ san_pc # "call"
    /\ Len(san_in) > 200
    /\ ~NoProblematic(san_in)
    /\ Len(san_out) = 200
    /\ san_out # Untitled

\* ------------------------------------------------- claims on the export

\* entry.get('title', 'Untitled') of a listed entry, which carries no title
\* here.
EntryTitle(entry) == <<"U", "n", "t", "i", "t", "l", "e", "d">>

\* The day of a timestamp, as strftime('%Y-%m-%d') renders it.
DayOf(t) == t \div (TicksPerSec * 86400)

\* C13: every entry of the new-entry set is exported (its content fetch and
\* file write not failing): under the name unknown-date_<sanitized title>.html
\* when its created_at cannot be parsed, and under a name that begins with
\* its date when it can.
C13_ExportedUnderDerivedName ==
    CycleEnded =>
        \A k \in 1..Len(new_entries) :
            LET e == new_entries[k]
            IN IF e.parsable
               THEN \E f \in output_dir : f.prefix = <<"date", DayOf(e.t)>>
               ELSE [prefix |-> <<"unknown-date">>,
                     title |-> Sanitize(EntryTitle(e))] \in output_dir

\* ------------------------------------------- claims on the API methods

\* C14: a token request is sent only by get_entries, get_entry_content or
\* add_entry_to_wallabag finding no token; once a token is held it is never
\* reset and no further token request is sent; a token request is repeated
\* only while every earlier one failed.
C14_LazyAuthOnce ==
    [][/\ token_reqs' # token_reqs =>
            /\ access_token = NoToken
            /\ api_op \in ApiOps
            /\ token_reqs' = token_reqs + 1
       /\ access_token # NoToken =>
            /\ access_token' = access_token
            /\ token_reqs' = token_reqs]_vars

\* A failed token request, then a successful one, then a call that reused
\* the token.
C14_Witness ==
    /\ Len(api_log) = 3
    /\ api_log[1].outcome = "auth_fail"
    /\ api_log[2].outcome # "auth_fail"
    /\ api_log[3].outcome # "auth_fail"
    /\ token_reqs = 2
    /\ access_token = Token

\* The value each method gives back when it has no result.
SentinelOf(op) ==
    CASE op = "get_entries" -> [kind |-> "list", items |-> <<>>]
      [] op = "get_entry_content" -> [kind |-> "none"]
      [] OTHER -> [kind |-> "bool", id |-> 0, val |-> FALSE]

\* C15: no call raises; a call whose request met a transport error or a
\* non-2xx answer returns its sentinel (add_entry_to_wallabag returns true on
\* 409); a call whose token request failed returns its sentinel without
\* sending its own request, and the token stays absent.
C15_FailuresBecomeSentinels ==
    \A k \in 1..Len(api_log) :
        LET e == api_log[k]
        IN /\ e.ret.kind # "raise"
           /\ e.outcome \in {"http_error", "transport_error"} =>
                  e.ret = SentinelOf(e.op)
           /\ e.outcome = "409" => e.ret = [kind |-> "bool", id |-> 0,
                                            val |-> TRUE]
           /\ e.outcome = "auth_fail" =>
                  /\ e.ret = SentinelOf(e.op)
                  /\ ~e.sent
                  /\ e.token = NoToken

\* Each of the three methods has failed once, by a failed token request, a
\* transport error and a non-2xx answer.
C15_Witness ==
    /\ Len(api_log) = 3
    /\ {api_log[k].op : k \in 1..3} = ApiOps
    /\ {api_log[k].outcome : k \in 1..3} =
           {"auth_fail", "transport_error", "http_error"}

\* ------------------------------------ claims on successive check cycles

\* An entry that was in no cycle's new-entry set and that no later cycle can
\* take as new: its created_at is parsable and not later than the stored
\* watermark, which later cycles only move forward.
Lost(e) ==
    /\ e.id \notin seen
    /\ e.parsable
    /\ watermark # NoTime
    /\ e.t <= watermark

\* C16: no entry is lost as the watermark advances: between cycles, every
\* entry of the server either has been in a new-entry set or can still be
\* taken as new by a later cycle, whatever failed in the cycles so far.
C16_NoEntryLost ==
    pc = "idle" => \A k \in 1..Len(server) : ~Lost(server[k])

\* ----------------------------------- claims on the order within a cycle

\* C17 (as stated): every cycle sends the listing request exactly once, with
\* the since filter exactly when a watermark was present.
C17_Original ==
    CycleEnded =>
        /\ list_sent_at # NoTime
        /\ list_since # NoTime <=> last_check # NoTime

\* C17 (amended): within a cycle the listing request is sent at most once,
\* after the start time is captured and only once a token is held (not at
\* all when the token request fails), with the since filter exactly when a
\* watermark was present; the watermark is written at most once, after the
\* listing and the filter; and after that write the cycle sends no request
\* and writes no file.
C17_CycleOrder ==
    /\ [](CycleEnded => (list_sent_at # NoTime <=> access_token # NoToken))
    /\ [](list_sent_at # NoTime =>
            /\ current_time # NoTime
            /\ list_since # NoTime <=> last_check # NoTime)
    /\ [][/\ (list_sent_at' # list_sent_at /\ pc' # "idle") =>
                /\ list_sent_at = NoTime
                /\ access_token # NoToken
                /\ ~saved
          /\ (saved' /\ ~saved) => pc \in {"listed", "export"}
          /\ (saved /\ pc' # "idle") =>
                /\ watermark' = watermark
                /\ list_sent_at' = list_sent_at
                /\ token_reqs' = token_reqs
                /\ output_dir' = output_dir]_vars

\* A finished cycle that listed with the since filter, filtered every listed
\* entry away and wrote the watermark.
C17_Witness ==
    /\ CycleEnded
    /\ saved
    /\ list_sent_at # NoTime
    /\ list_since # NoTime
    /\ entries # <<>>
    /\ new_entries = <<>>

\* ------------------------------------- claims on the header and the counts

UpperOf(c) ==
    CASE c = "t" -> "T" [] c = "i" -> "I" [] c = "l" -> "L" [] c = "e" -> "E"
      [] c = "u" -> "U" [] c = "r" -> "R" [] OTHER -> c

\* str holds word (given in lower case) in any mix of cases.
HasWord(str, word) ==
    \E i \in 0..(Len(str) - Len(word)) :
        \A j \in 1..Len(word) : str[i + j] \in {word[j], UpperOf(word[j])}

FirstLineNamesColumn ==
    /\ csv_file # <<>>
    /\ \E f \in 1..Len(csv_file[1]) :
         \/ HasWord(csv_file[1][f], <<"t", "i", "t", "l", "e">>)
         \/ HasWord(csv_file[1][f], <<"u", "r", "l">>)

ImportStarted == pc \in {"rows", "add_post", "done"} \/ (pc = "failed" /\ csv_exists)

Counted == imported_count + error_count + skipped_count

\* C18: the first line is discarded as a header exactly when it contains
\* title or url in any case; a discarded first line enters none of the three
\* counts and no add-entry call; a first line that is kept is processed as
\* an ordinary data row.
C18_HeaderDetection ==
    ImportStarted =>
        /\ has_header <=> FirstLineNamesColumn
        /\ has_header =>
             /\ \A k \in 1..Len(add_log) : add_log[k].row # 1
             /\ pc = "done" => Counted = Len(csv_file) - 1
        /\ (~has_header /\ row_i > 1) =>
             /\ Counted >= 1
             /\ Skippable(csv_file[1]) => skipped_count >= 1
             /\ (~Skippable(csv_file[1]) /\ ~dry_run) => add_log[1].row = 1
             /\ (~Skippable(csv_file[1]) /\ dry_run) => imported_count >= 1
             /\ pc = "done" => Counted = Len(csv_file)

\* A finished import that discarded a header written in capitals and counted
\* the two rows after it.
C18_Witness ==
    /\ pc = "done"
    /\ has_header
    /\ Len(csv_file) = 3
    /\ csv_file[1][1][1] = "T"
    /\ Counted = 2

\* C19: at every point of an import each data row processed so far is in
\* exactly one of imported, errored, skipped, so their sum is the number of
\* data rows processed; when not a dry run the number of add-entry calls is
\* imported + errored.
C19_EveryRowCountedOnce ==
    ImportStarted =>
        /\ Counted = (row_i - 1) - (IF has_header THEN 1 ELSE 0)
        /\ ~dry_run => Len(add_log) = imported_count + error_count
        /\ dry_run => add_log = <<>>

\* Midway or at the end of an import that has imported, failed and skipped a
\* row each.
C19_Witness ==
    /\ ImportStarted
    /\ ~dry_run
    /\ imported_count = 1
    /\ error_count = 1
    /\ skipped_count = 1
    /\ Len(add_log) = 2

====
